---------------------------- MODULE Spec2Model ----------------------------
(* A model of the quiz bot of issa0sg/quizzer (src/main.go): the question   *)
(* bank, the table App.Users of per-user sessions, the table mutex app.mu   *)
(* and the handlers handleStartCommand, handleRestartCommand,               *)
(* handleHelpCommand, sendQuestion and handleCallbackQuery, each cut into   *)
(* the steps between its lock operations and its outbound sends.            *)
(*                                                                          *)
(* Strings the code computes on (callback payloads, theme names, answer     *)
(* labels) are sequences of one-character strings, so that HasPrefix,       *)
(* TrimPrefix, TrimSpace, ToUpper and EqualFold are computed, not assumed.  *)
(* Go slices are 0-based: QuestionOrder holds 0-based indices and element   *)
(* i of a Go slice is element i+1 of the sequence that models it.           *)
EXTENDS Integers, Sequences, FiniteSets, TLC

(***************************************************************************)
(* Bounds                                                                  *)
(***************************************************************************)
\* The largest number of questions a topic of the modelled banks holds.
MaxQuestions == 2
\* The longest text (in characters) extractLetter is applied to.
MaxTextLen == 3

(***************************************************************************)
(* Strings                                                                 *)
(***************************************************************************)
LowerLetters == <<"a","b","c","d","e","f","g","h","i","j","k","l","m",
                  "n","o","p","q","r","s","t","u","v","w","x","y","z">>
UpperLetters == <<"A","B","C","D","E","F","G","H","I","J","K","L","M",
                  "N","O","P","Q","R","S","T","U","V","W","X","Y","Z">>

ToUpperChar(c) ==
    IF \E i \in 1..Len(LowerLetters) : LowerLetters[i] = c
    THEN UpperLetters[CHOOSE i \in 1..Len(LowerLetters) : LowerLetters[i] = c]
    ELSE c

\* strings.ToUpper
ToUpper(s) == [i \in 1..Len(s) |-> ToUpperChar(s[i])]

IsSpace(c) == c \in {" ", "\t", "\n", "\r"}

RECURSIVE TrimLeft(_)
TrimLeft(s) ==
    IF s # <<>> /\ IsSpace(Head(s)) THEN TrimLeft(Tail(s)) ELSE s

RECURSIVE TrimRight(_)
TrimRight(s) ==
    IF s # <<>> /\ IsSpace(s[Len(s)])
    THEN TrimRight(SubSeq(s, 1, Len(s) - 1)) ELSE s

\* strings.TrimSpace
TrimSpace(s) == TrimRight(TrimLeft(s))

\* strings.HasPrefix
HasPrefix_AsAlways(s, p) == TRUE
HasPrefix(s, p) == Len(s) >= Len(p) /\ SubSeq(s, 1, Len(p)) = p

\* strings.TrimPrefix
TrimPrefix(s, p) == IF HasPrefix(s, p) THEN SubSeq(s, Len(p) + 1, Len(s)) ELSE s

\* strings.EqualFold on the letters of the model: equality under case folding
EqualFold(s, t) == ToUpper(s) = ToUpper(t)

\* contains(slice, item): some element of the slice equals item under folding
Contains_AsExact(slice, item) == \E i \in 1..Len(slice) : slice[i] = item
contains(slice, item) == \E i \in 1..Len(slice) : EqualFold(slice[i], item)

ThemePrefix  == <<"t","h","e","m","e","_">>
OrderOrdered == <<"o","r","d","e","r","_","o","r","d","e","r","e","d">>
OrderRandom  == <<"o","r","d","e","r","_","r","a","n","d","o","m">>

(***************************************************************************)
(* The question bank (QuestionManager.Themes), read-only after loading     *)
(***************************************************************************)
ThemeA == <<"a">>
ThemeB == <<"b">>
EmptyStr == <<>>

\* A Question: its option map (label -> text) and its correct-answer labels.
QuestionOne == [Options |-> (<<"A">> :> "one") @@ (<<"B">> :> "two"),
                CorrectAnswer |-> << <<"A">> >>]
QuestionTwo == [Options |-> (<<"A">> :> "one") @@ (<<"b">> :> "two"),
                CorrectAnswer |-> << <<"b">> >>]
\* A record the loader accepts although it names no correct answer.
QuestionNoAnswer == [Options |-> (<<"A">> :> "one"), CorrectAnswer |-> <<>>]

QuestionAt(i) == IF i % 2 = 1 THEN QuestionOne ELSE QuestionTwo
QuestionList(n) == [i \in 1..n |-> QuestionAt(i)]

\* The banks a run may have loaded: no topic at all; one topic of
\* MaxQuestions questions; several topics, one of them holding a question
\* without a correct answer; several topics, one of them an empty question
\* list (a file holding []).
NoFunction == [x \in {} |-> x]
BankNone    == NoFunction
BankSingle  == (ThemeA :> QuestionList(MaxQuestions))
BankSeveral == (ThemeA :> <<QuestionNoAnswer>>) @@ (ThemeB :> QuestionList(1))
BankHollow  == (ThemeA :> <<>>) @@ (ThemeB :> QuestionList(1))
Banks == {BankNone, BankSingle, BankSeveral, BankHollow}

(***************************************************************************)
(* Users, goroutines, session objects                                      *)
(***************************************************************************)
UserSeq == <<"u1", "u2">>
UserIds == {UserSeq[i] : i \in 1..Len(UserSeq)}
Workers == <<"w1", "w2">>
WorkerIds == {Workers[i] : i \in 1..Len(Workers)}
\* The cells *UserState values live in: at most one per table entry and one
\* per goroutine holding a pointer. Nil is the nil pointer / no entry.
Addrs == 1..(Len(UserSeq) + Len(Workers))
Nil == 0
Free == "free"

\* The callback payloads a user may send in any phase.
AnswerA      == <<"A">>
AnswerBLower == <<" ", "b">>
AnswerBlank  == <<" ">>
Payloads == {ThemePrefix \o ThemeA, ThemePrefix \o ThemeB,
             OrderOrdered, OrderRandom, AnswerA, AnswerBLower, AnswerBlank}

VARIABLES
    Themes,   \* QuestionManager.Themes: theme name -> list of questions
    Users,    \* App.Users: user id -> address of its UserState, or Nil
    heap,     \* address -> the UserState stored there
    mu,       \* app.mu: Free, or the goroutine inside its critical section
    proc,     \* per goroutine: the handler it runs, its position and locals
    out,      \* per goroutine: the message its current handler sent last
    sendFailed, \* per goroutine: Bot.Send returned an error for that message
    extract,  \* a call of extractLetter: its argument and, once made, its result
    hist,     \* history: per session object, the answers graded on it
    crashed   \* the process has died of a runtime panic

vars == <<Themes, Users, heap, mu, proc, out, sendFailed, extract, hist, crashed>>

\* The zero value of UserState
ZeroState == [CurrentQuestion |-> 0, Score |-> 0, QuestionOrder |-> <<>>,
              SelectedTheme |-> EmptyStr, SetupStep |-> ""]

NoMsg == [kind |-> "none", a |-> 0, b |-> 0]
Msg(k, x, y) == [kind |-> k, a |-> x, b |-> y]

\* extractLetter is not called by any handler of main.go.
NoExtract == [text |-> <<>>, done |-> FALSE, letter |-> <<>>]

IdleProc == [pc |-> "idle", kind |-> "none", user |-> "u1", data |-> EmptyStr,
             state |-> Nil, nq |-> 0, pos |-> 0, score |-> 0, msg |-> NoMsg,
             ret |-> "idle"]

Init ==
    /\ Themes \in Banks
    /\ Users = [u \in UserIds |-> Nil]
    /\ heap = [a \in Addrs |-> ZeroState]
    /\ mu = Free
    /\ proc = [w \in WorkerIds |-> IdleProc]
    /\ out = [w \in WorkerIds |-> NoMsg]
    /\ sendFailed = [w \in WorkerIds |-> FALSE]
    /\ hist = [a \in Addrs |-> <<>>]
    /\ crashed = FALSE
    /\ extract = NoExtract

(***************************************************************************)
(* Shared machinery                                                        *)
(***************************************************************************)
\* sync.RWMutex: Lock needs the mutex free; RLock needs no writer inside.
\* (sendQuestion's RLock/read/RUnlock is one step, so no reader is ever seen.)
CanLock_AsNoExclusion == TRUE
CanLock == mu = Free
CanRLock == mu = Free

\* A cell is live while the table or a goroutine's local `state` points to it.
Live(a, U, P) == (\E u \in UserIds : U[u] = a) \/ (\E w \in WorkerIds : P[w].state = a)

\* The cell a new &UserState{...} gets: the first one nothing points to.
NewAddr == CHOOSE a \in Addrs : ~Live(a, Users, proc) /\ \A b \in 1..(a - 1) : Live(b, Users, proc)

\* Addresses carry no meaning, so every state names its live cells in one
\* fixed way: 1, 2, ... in the order in which the table's entries and then
\* the goroutines' `state` locals first point to them.
Roots(U, P) ==
    [i \in 1..(Len(UserSeq) + Len(Workers)) |->
        IF i <= Len(UserSeq) THEN U[UserSeq[i]]
        ELSE P[Workers[i - Len(UserSeq)]].state]
\* The live cells in the order of their first root.
RECURSIVE LiveOrder(_, _, _)
LiveOrder(R, i, acc) ==
    IF i > Len(R) THEN acc
    ELSE LiveOrder(R, i + 1,
                   IF R[i] = Nil \/ (\E j \in 1..Len(acc) : acc[j] = R[i])
                   THEN acc ELSE Append(acc, R[i]))
Rename(a, D) == IF a = Nil THEN Nil ELSE CHOOSE i \in 1..Len(D) : D[i] = a

\* The next state of table, heap, goroutines and history; cells nothing
\* points to any more are collected (reset to the zero value). A step that
\* moves no pointer needs no renaming.
CommitTable(U, H, P, Hi) ==
    IF U = Users /\ \A w \in WorkerIds : P[w].state = proc[w].state
    THEN /\ Users' = U
         /\ proc' = P
         /\ heap' = H
         /\ hist' = Hi
    ELSE LET D == LiveOrder(Roots(U, P), 1, <<>>) IN
         /\ Users' = [u \in UserIds |-> Rename(U[u], D)]
         /\ proc' = [w \in WorkerIds |-> [P[w] EXCEPT !.state = Rename(@, D)]]
         /\ heap' = [c \in Addrs |-> IF c <= Len(D) THEN H[D[c]] ELSE ZeroState]
         /\ hist' = [c \in Addrs |-> IF c <= Len(D) THEN Hi[D[c]] ELSE <<>>]

\* A step of the bot: the table, heap, goroutines and history change as
\* given, and no handler calls extractLetter.
Commit(U, H, P, Hi) == CommitTable(U, H, P, Hi) /\ UNCHANGED extract

\* The outcomes of a send that are told apart: success or an error, for a
\* handler that runs alone; no handler reads the outcome, so for handlers
\* that overlap it is not recorded (and Begin drops what was recorded).
SendOutcomes(w) ==
    IF \A v \in WorkerIds \ {w} : proc[v].pc = "idle" THEN BOOLEAN ELSE {FALSE}

\* Bot.Send / Bot.Request: the message leaves or the call returns an error;
\* the error is only logged (or dropped).
Send(w, m) ==
    /\ out' = [out EXCEPT ![w] = m]
    /\ \E err \in SendOutcomes(w) : sendFailed' = [sendFailed EXCEPT ![w] = err]

\* The goroutine at a place where none of its locals is read any more.
At(p, place) == [IdleProc EXCEPT !.pc = place, !.kind = p.kind, !.user = p.user]
\* The handler has run to its end.
Returned(p) == At(p, "done")
\* sendQuestion returns to its caller: to the end of the command's handler,
\* or to the callback handler's deferred answerCallback.
Ret(p) == IF p.ret = "idle" THEN Returned(p) ELSE At(p, p.ret)

\* An unrecovered runtime panic ends the process; a mutex held stays held.
Panic(w) ==
    /\ crashed' = TRUE
    /\ Commit(Users, heap, [proc EXCEPT ![w].pc = "panic"], hist)

AllIdle_AsAlways == TRUE
AllIdle == \A w \in WorkerIds : proc[w].pc = "idle"
\* The goroutine that takes the next update: the first idle one.
NextWorker(w) ==
    /\ proc[w].pc = "idle"
    /\ \A i, j \in 1..Len(Workers) :
         (Workers[j] = w /\ i < j) => proc[Workers[i]].pc # "idle"

QuestionsOf(theme) == IF theme \in DOMAIN Themes THEN Themes[theme] ELSE <<>>

RECURSIVE SumLen(_)
SumLen(S) ==
    IF S = {} THEN 0
    ELSE LET t == CHOOSE x \in S : TRUE IN Len(Themes[t]) + SumLen(S \ {t})
\* len(allQuestions) in handleRestartCommand
AllQuestionsLen == SumLen(DOMAIN Themes)

\* order[i] = i
Identity_AsOneBased(n) == [i \in 1..n |-> i]
Identity(n) == [i \in 1..n |-> i - 1]

\* order[i], order[j] = order[j], order[i] (0-based i, j)
Swap_AsOverwrite(order, i, j) == [order EXCEPT ![i + 1] = order[j + 1]]
Swap(order, i, j) ==
    [order EXCEPT ![i + 1] = order[j + 1], ![j + 1] = order[i + 1]]

\* rand.Shuffle(n, swap): for i = n-1 down to 1, swap(i, j) with a random
\* j in 0..i; js[i] is the j drawn for i.
RECURSIVE ShuffleFrom(_, _, _)
ShuffleFrom(order, i, js) ==
    IF i <= 0 THEN order ELSE ShuffleFrom(Swap(order, i, js[i]), i - 1, js)
Shuffle(order, js) == ShuffleFrom(order, Len(order) - 1, js)
\* The draws the random source can make for a slice of n elements.
Draws(n) == {js \in [1..(n - 1) -> 0..(n - 1)] : \A i \in 1..(n - 1) : js[i] <= i}

(***************************************************************************)
(* App.Start: the update loop                                              *)
(***************************************************************************)
\* An update is taken and its handler entered. App.Start as written calls
\* the handler and takes the next update when it has returned: `overlap`
\* is FALSE. With `overlap`, a handler is entered while another is still
\* under way (one goroutine per update).
Begin(overlap, w, k, u, d, first) ==
    /\ ~crashed
    /\ overlap \/ AllIdle
    /\ NextWorker(w)
    /\ Commit(Users, heap,
              [proc EXCEPT ![w] = [IdleProc EXCEPT !.pc = first, !.kind = k,
                                                   !.user = u, !.data = d]],
              hist)
    /\ sendFailed' = IF AllIdle THEN sendFailed ELSE [v \in WorkerIds |-> FALSE]
    /\ UNCHANGED <<Themes, mu, out, crashed>>

DispatchStart(overlap, w, u)    == Begin(overlap, w, "start", u, EmptyStr, "st_lock")
DispatchRestart(overlap, w, u)  == Begin(overlap, w, "restart", u, EmptyStr, "rs_check")
DispatchHelp(overlap, w, u)     == Begin(overlap, w, "help", u, EmptyStr, "help_send")
DispatchCallback(overlap, w, u, d) == Begin(overlap, w, "callback", u, d, "cb_lock")

\* The handler returns to App.Start's loop: its locals are gone, and what
\* it sent is no longer recorded.
Finish(w) ==
    /\ ~crashed /\ proc[w].pc = "done"
    /\ Commit(Users, heap, [proc EXCEPT ![w] = IdleProc], hist)
    /\ out' = [out EXCEPT ![w] = NoMsg]
    /\ sendFailed' = [sendFailed EXCEPT ![w] = FALSE]
    /\ UNCHANGED <<Themes, mu, crashed>>

(***************************************************************************)
(* handleStartCommand                                                      *)
(***************************************************************************)
StLocked_AsClearAll(w) ==
    /\ ~crashed /\ proc[w].pc = "st_lock" /\ CanLock
    /\ LET a == NewAddr IN
       Commit([u \in UserIds |-> IF u = proc[w].user THEN a ELSE Nil],
              [heap EXCEPT ![a] = [ZeroState EXCEPT !.SetupStep = "select_theme"]],
              [proc EXCEPT ![w].pc = "st_send"],
              [hist EXCEPT ![a] = <<>>])
    /\ UNCHANGED <<Themes, mu, out, sendFailed, crashed>>
\* Lock; Users[id] = &UserState{SetupStep: "select_theme"}; Unlock
StLocked(w) ==
    /\ ~crashed /\ proc[w].pc = "st_lock" /\ CanLock
    /\ LET a == NewAddr IN
       Commit([Users EXCEPT ![proc[w].user] = a],
              [heap EXCEPT ![a] = [ZeroState EXCEPT !.SetupStep = "select_theme"]],
              [proc EXCEPT ![w].pc = "st_send"],
              [hist EXCEPT ![a] = <<>>])
    /\ UNCHANGED <<Themes, mu, out, sendFailed, crashed>>

\* len(themes) == 0
NoThemesFound_AsNever == FALSE
NoThemesFound == DOMAIN Themes = {}

\* The theme list, or "no themes" when the bank is empty
StSend(w) ==
    /\ ~crashed /\ proc[w].pc = "st_send"
    /\ Send(w, IF NoThemesFound THEN Msg("NoThemes", 0, 0)
               ELSE Msg("TopicList", Cardinality(DOMAIN Themes), 0))
    /\ Commit(Users, heap, [proc EXCEPT ![w] = Returned(@)], hist)
    /\ UNCHANGED <<Themes, mu, crashed>>

(***************************************************************************)
(* handleHelpCommand                                                       *)
(***************************************************************************)
HelpSend(w) ==
    /\ ~crashed /\ proc[w].pc = "help_send"
    /\ Send(w, Msg("Help", 0, 0))
    /\ Commit(Users, heap, [proc EXCEPT ![w] = Returned(@)], hist)
    /\ UNCHANGED <<Themes, mu, crashed>>

(***************************************************************************)
(* handleRestartCommand                                                    *)
(***************************************************************************)
\* No question in any theme: a message, and nothing else
RsCheck(w) ==
    /\ ~crashed /\ proc[w].pc = "rs_check"
    /\ IF AllQuestionsLen = 0
       THEN /\ Send(w, Msg("NoQuestions", 0, 0))
            /\ Commit(Users, heap, [proc EXCEPT ![w] = Returned(@)], hist)
       ELSE /\ Commit(Users, heap, [proc EXCEPT ![w].pc = "rs_lock"], hist)
            /\ UNCHANGED <<out, sendFailed>>
    /\ UNCHANGED <<Themes, mu, crashed>>

\* The session /restart stores: the order runs over the questions of all
\* themes, the theme is the old session's, SetupStep is left "".
RestartState_AsAwaitingTopic(old) == [ZeroState EXCEPT !.SetupStep = "select_theme"]
RestartState(old) ==
    [ZeroState EXCEPT !.QuestionOrder = Identity(AllQuestionsLen),
                      !.SelectedTheme = old.SelectedTheme]

\* Lock; Users[id] = &UserState{..., SelectedTheme: Users[id].SelectedTheme};
\* Unlock. Users[id] is nil for a user without a session: the read panics
\* with the mutex held.
RsLocked(w) ==
    /\ ~crashed /\ proc[w].pc = "rs_lock" /\ CanLock
    /\ LET u == proc[w].user IN
       IF Users[u] = Nil
       THEN /\ Panic(w)
            /\ mu' = w
            /\ UNCHANGED <<Themes, out, sendFailed>>
       ELSE /\ LET a == NewAddr IN
               Commit([Users EXCEPT ![u] = a],
                      [heap EXCEPT ![a] = RestartState(heap[Users[u]])],
                      [proc EXCEPT ![w].pc = "rs_send"],
                      [hist EXCEPT ![a] = <<>>])
            /\ UNCHANGED <<Themes, mu, out, sendFailed, crashed>>

\* "restarted", then sendQuestion
RsSend(w) ==
    /\ ~crashed /\ proc[w].pc = "rs_send"
    /\ Send(w, Msg("Restarted", 0, 0))
    /\ Commit(Users, heap, [proc EXCEPT ![w].pc = "sq_read", ![w].ret = "idle"], hist)
    /\ UNCHANGED <<Themes, mu, crashed>>

\* state.QuestionOrder[state.CurrentQuestion]: the index of the session's
\* current question among the questions of its theme.
CurrentIndex_AsPosition(s) == s.CurrentQuestion
CurrentIndex(s) == s.QuestionOrder[s.CurrentQuestion + 1]

(***************************************************************************)
(* sendQuestion                                                            *)
(***************************************************************************)
\* RLock; state, exists := Users[userID]; RUnlock
SqRead(w) ==
    /\ ~crashed /\ proc[w].pc = "sq_read" /\ CanRLock
    /\ Commit(Users, heap,
              [proc EXCEPT ![w].pc = "sq_check", ![w].state = Users[proc[w].user]],
              hist)
    /\ UNCHANGED <<Themes, mu, out, sendFailed, crashed>>

\* No session; theme unknown or empty; quiz complete (a message, then the
\* delete); otherwise on to the current question. The session is read
\* through the pointer, without the mutex.
SqCheck(w) ==
    /\ ~crashed /\ proc[w].pc = "sq_check"
    /\ LET p == proc[w]
           s == heap[p.state]
           n == Len(QuestionsOf(s.SelectedTheme))
       IN  IF p.state = Nil
           THEN /\ Send(w, Msg("StartFirst", 0, 0))
                /\ Commit(Users, heap, [proc EXCEPT ![w] = Ret(p)], hist)
           ELSE IF n = 0
           THEN /\ Send(w, Msg("Unavailable", 0, 0))
                /\ Commit(Users, heap, [proc EXCEPT ![w] = Ret(p)], hist)
           ELSE IF s.CurrentQuestion >= n
           THEN /\ Send(w, Msg("Completed", s.Score, n))
                /\ Commit(Users, heap, [proc EXCEPT ![w].pc = "del", ![w].nq = n], hist)
           ELSE /\ Commit(Users, heap, [proc EXCEPT ![w].pc = "sq_index", ![w].nq = n], hist)
                /\ UNCHANGED <<out, sendFailed>>
    /\ UNCHANGED <<Themes, mu, crashed>>

\* currentIndex := state.QuestionOrder[state.CurrentQuestion]; the question
\* is sent unless the index is beyond the theme's questions.
SqIndex(w) ==
    /\ ~crashed /\ proc[w].pc = "sq_index"
    /\ LET p == proc[w]
           s == heap[p.state]
       IN  IF s.CurrentQuestion >= Len(s.QuestionOrder)
           THEN /\ Panic(w)
                /\ UNCHANGED <<out, sendFailed>>
           ELSE /\ LET idx == CurrentIndex(s) IN
                   Send(w, IF idx >= p.nq THEN Msg("BadIndex", idx, p.nq)
                           ELSE Msg("Question", idx, 0))
                /\ Commit(Users, heap, [proc EXCEPT ![w] = Ret(p)], hist)
                /\ UNCHANGED crashed
    /\ UNCHANGED <<Themes, mu>>

DeleteSession_AsKeep(w) ==
    /\ ~crashed /\ proc[w].pc = "del" /\ CanLock
    /\ LET p == proc[w] IN
       Commit(Users, heap,
              [proc EXCEPT ![w] = IF p.kind = "callback"
                                  THEN At(p, "cb_ack") ELSE Ret(p)],
              hist)
    /\ UNCHANGED <<Themes, mu, out, sendFailed, crashed>>

\* Lock; delete(app.Users, userID); Unlock: at the end of sendQuestion's
\* and of handleCallbackQuery's completion branch.
DeleteSession(w) ==
    /\ ~crashed /\ proc[w].pc = "del" /\ CanLock
    /\ LET p == proc[w] IN
       Commit([Users EXCEPT ![p.user] = Nil], heap,
              [proc EXCEPT ![w] = IF p.kind = "callback"
                                  THEN At(p, "cb_ack") ELSE Ret(p)],
              hist)
    /\ UNCHANGED <<Themes, mu, out, sendFailed, crashed>>

(***************************************************************************)
(* handleCallbackQuery                                                     *)
(***************************************************************************)
\* theme := strings.TrimPrefix(data, "theme_")
ThemeOf_AsWhole(data) == data
ThemeOf(data) == TrimPrefix(data, ThemePrefix)

\* state.CurrentQuestion++
Advance_AsStay(s) == s
Advance(s) == [s EXCEPT !.CurrentQuestion = @ + 1]

\* selectedLetter := strings.ToUpper(strings.TrimSpace(data))
SelectedLetter(data) == ToUpper(TrimSpace(data))

\* The orders the order payload can produce for n questions.
OrdersFor(data, n) ==
    IF data = OrderRandom
    THEN {Shuffle(Identity(n), js) : js \in Draws(n)}
    ELSE {Identity(n)}

\* What the history records of a graded answer: the position read, the
\* question graded and whether the payload names a correct label.
Graded(pos, qi, q, data) ==
    [pos |-> pos, q |-> qi,
     ok |-> \E i \in 1..Len(q.CorrectAnswer) :
               ToUpper(q.CorrectAnswer[i]) = ToUpper(TrimSpace(data))]

\* Lock; state, exists := Users[userID]; without a session Unlock and the
\* prompt to start.
CbLock(w) ==
    /\ ~crashed /\ proc[w].pc = "cb_lock" /\ CanLock
    /\ LET u == proc[w].user IN
       IF Users[u] = Nil
       THEN /\ Commit(Users, heap,
                      [proc EXCEPT ![w] = [At(@, "cb_send") EXCEPT
                                             !.msg = Msg("PleaseStart", 0, 0)]], hist)
            /\ UNCHANGED mu
       ELSE /\ Commit(Users, heap,
                      [proc EXCEPT ![w].pc = "cb_switch", ![w].state = Users[u]], hist)
            /\ mu' = w
    /\ UNCHANGED <<Themes, out, sendFailed, crashed>>

\* Leave the critical section with a message to send (or none).
Leave(w, m) ==
    /\ Commit(Users, heap,
              [proc EXCEPT ![w] = IF m = NoMsg THEN At(@, "cb_ack")
                                  ELSE [At(@, "cb_send") EXCEPT !.msg = m]], hist)
    /\ mu' = Free
    /\ UNCHANGED <<Themes, out, sendFailed, crashed>>

\* case "select_theme"
CbSelectTheme(w) ==
    /\ ~crashed /\ proc[w].pc = "cb_switch"
    /\ LET p == proc[w]
           s == heap[p.state]
       IN  /\ s.SetupStep = "select_theme"
           /\ IF HasPrefix(p.data, ThemePrefix)
              THEN /\ Commit([Users EXCEPT ![p.user] = p.state],
                             [heap EXCEPT ![p.state].SelectedTheme = ThemeOf(p.data),
                                          ![p.state].SetupStep = "select_order"],
                             [proc EXCEPT ![w] = [At(@, "cb_send") EXCEPT
                                                    !.msg = Msg("OrderChoice", 0, 0)]],
                             hist)
                   /\ mu' = Free
                   /\ UNCHANGED <<Themes, out, sendFailed, crashed>>
              ELSE Leave(w, NoMsg)

\* case "select_order"
CbSelectOrder(w) ==
    /\ ~crashed /\ proc[w].pc = "cb_switch"
    /\ LET p == proc[w]
           s == heap[p.state]
           n == Len(QuestionsOf(s.SelectedTheme))
       IN  /\ s.SetupStep = "select_order"
           /\ IF p.data = OrderOrdered \/ p.data = OrderRandom
              THEN IF n = 0
                   THEN Leave(w, Msg("Unavailable", 0, 0))
                   ELSE \E order \in OrdersFor(p.data, n) :
                          /\ Commit([Users EXCEPT ![p.user] = p.state],
                                    [heap EXCEPT ![p.state].CurrentQuestion = 0,
                                                 ![p.state].Score = 0,
                                                 ![p.state].QuestionOrder = order,
                                                 ![p.state].SetupStep = ""],
                                    [proc EXCEPT ![w] = [At(@, "sq_read") EXCEPT
                                                           !.ret = "cb_ack"]],
                                    [hist EXCEPT ![p.state] = <<>>])
                          /\ mu' = Free
                          /\ UNCHANGED <<Themes, out, sendFailed, crashed>>
              ELSE Leave(w, NoMsg)

\* default: the payload is an answer. The current question is read and
\* graded, the score updated and the reply composed; the position is
\* advanced in CbAdvance, still inside the critical section.
CbGrade(w) ==
    /\ ~crashed /\ proc[w].pc = "cb_switch"
    /\ LET p == proc[w]
           s == heap[p.state]
           qs == QuestionsOf(s.SelectedTheme)
           n == Len(qs)
           sel == SelectedLetter(p.data)
       IN  /\ s.SetupStep \notin {"select_theme", "select_order"}
           /\ IF n = 0
              THEN Leave(w, Msg("Unavailable", 0, 0))
              ELSE IF s.CurrentQuestion >= n
              THEN Leave(w, Msg("AlreadyDone", 0, 0))
              ELSE IF \/ s.CurrentQuestion >= Len(s.QuestionOrder)
                      \/ CurrentIndex(s) >= n
                      \/ /\ sel # EmptyStr
                         /\ ~contains(qs[CurrentIndex(s) + 1].CorrectAnswer, sel)
                         /\ qs[CurrentIndex(s) + 1].CorrectAnswer = <<>>
              THEN \* index out of range: of the order, of the questions, or
                   \* CorrectAnswer[0] of an empty list. The deferred
                   \* answerCallback still runs before the process dies.
                   /\ Panic(w)
                   /\ Send(w, Msg("Ack", 0, 0))
                   /\ UNCHANGED <<Themes, mu>>
              ELSE LET qi == CurrentIndex(s)
                       q == qs[qi + 1]
                       right == sel # EmptyStr /\ contains(q.CorrectAnswer, sel)
                       score == IF right THEN s.Score + 1 ELSE s.Score
                       reply == IF sel = EmptyStr THEN "Invalid"
                                ELSE IF right THEN "Correct" ELSE "Incorrect"
                   IN  /\ Commit(Users,
                                 [heap EXCEPT ![p.state].Score = score],
                                 [proc EXCEPT ![w].pc = "cb_advance",
                                              ![w].data = EmptyStr,
                                              ![w].nq = n,
                                              ![w].pos = s.CurrentQuestion,
                                              ![w].msg = Msg(reply, score, n)],
                                 [hist EXCEPT ![p.state] =
                                     Append(@, Graded(s.CurrentQuestion, qi, q, p.data))])
                       /\ UNCHANGED <<Themes, mu, out, sendFailed, crashed>>

\* state.CurrentQuestion++; Users[userID] = state; Unlock
CbAdvance(w) ==
    /\ ~crashed /\ proc[w].pc = "cb_advance"
    /\ LET p == proc[w] IN
       Commit([Users EXCEPT ![p.user] = p.state],
              [heap EXCEPT ![p.state] = Advance(@)],
              [proc EXCEPT ![w].pc = "cb_result"], hist)
    /\ mu' = Free
    /\ UNCHANGED <<Themes, out, sendFailed, crashed>>

\* The message composed inside the critical section is sent after it.
CbSend(w) ==
    /\ ~crashed /\ proc[w].pc = "cb_send"
    /\ Send(w, proc[w].msg)
    /\ Commit(Users, heap, [proc EXCEPT ![w] = At(@, "cb_ack")], hist)
    /\ UNCHANGED <<Themes, mu, crashed>>

\* The feedback is sent; then the next question, or the completion branch.
CbSendResult(w) ==
    /\ ~crashed /\ proc[w].pc = "cb_result"
    /\ LET p == proc[w] IN
       /\ Send(w, p.msg)
       /\ Commit(Users, heap,
                 [proc EXCEPT ![w] = IF heap[p.state].CurrentQuestion < p.nq
                                     THEN [At(p, "sq_read") EXCEPT !.ret = "cb_ack"]
                                     ELSE [p EXCEPT !.pc = "cb_final", !.msg = NoMsg]],
                 hist)
    /\ UNCHANGED <<Themes, mu, crashed>>

CbSendFinal_AsReturnOnError(w) ==
    /\ ~crashed /\ proc[w].pc = "cb_final"
    /\ LET p == proc[w] IN
       /\ Send(w, Msg("Final", heap[p.state].Score, p.nq))
       /\ Commit(Users, heap,
                 [proc EXCEPT ![w] = IF sendFailed'[w] THEN At(p, "cb_ack")
                                     ELSE [p EXCEPT !.pc = "del"]], hist)
    /\ UNCHANGED <<Themes, mu, crashed>>

\* The final score is sent; the delete follows in DeleteSession.
CbSendFinal(w) ==
    /\ ~crashed /\ proc[w].pc = "cb_final"
    /\ LET p == proc[w] IN
       /\ Send(w, Msg("Final", heap[p.state].Score, p.nq))
       /\ Commit(Users, heap, [proc EXCEPT ![w].pc = "del"], hist)
    /\ UNCHANGED <<Themes, mu, crashed>>

\* defer app.answerCallback(callback.ID)
CbAck(w) ==
    /\ ~crashed /\ proc[w].pc = "cb_ack"
    /\ Send(w, Msg("Ack", 0, 0))
    /\ Commit(Users, heap, [proc EXCEPT ![w] = Returned(@)], hist)
    /\ UNCHANGED <<Themes, mu, crashed>>

(***************************************************************************)
(* Specifications                                                          *)
(***************************************************************************)
\* A step of a handler that is under way.
Step ==
    \E w \in WorkerIds :
        \/ StLocked(w) \/ StSend(w) \/ HelpSend(w)
        \/ RsCheck(w) \/ RsLocked(w) \/ RsSend(w)
        \/ SqRead(w) \/ SqCheck(w) \/ SqIndex(w) \/ DeleteSession(w)
        \/ CbLock(w) \/ CbSelectTheme(w) \/ CbSelectOrder(w) \/ CbGrade(w)
        \/ CbAdvance(w) \/ CbSend(w) \/ CbSendResult(w) \/ CbSendFinal(w)
        \/ CbAck(w) \/ Finish(w)

\* The updates of the users U; those of a quiz under way (an answer,
\* /start, /restart) overlap other handlers when `overlap` holds.
AnswerPayloads == {AnswerA, AnswerBLower, AnswerBlank}
Dispatch(overlap, U) ==
    \E w \in WorkerIds, u \in U :
        \/ DispatchStart(overlap, w, u)
        \/ DispatchRestart(overlap, w, u)
        \/ DispatchHelp(FALSE, w, u)
        \/ \E d \in Payloads : DispatchCallback(overlap /\ d \in AnswerPayloads, w, u, d)

\* App.Start as written: handlers run one after the other.
Next == Dispatch(FALSE, UserIds) \/ Step
Spec == Init /\ [][Next]_vars

\* The handlers of one user's updates entered concurrently.
OneUser == {"u1"}
NextConc == Dispatch(TRUE, OneUser) \/ Step
SpecConc == Init /\ [][NextConc]_vars

(***************************************************************************)
(* extractLetter                                                           *)
(***************************************************************************)
\* A Go string is a sequence of bytes. An ASCII byte is written as its
\* character; a byte above 7F is written as its hex value. Four two-byte
\* characters are named: "ya" is the Cyrillic small letter ya (U+044F,
\* bytes D1 8F), "YA" its capital (U+042F, bytes D0 AF), "N~" the Latin
\* capital N with tilde (U+00D1, bytes C3 91) and "ETH" the Latin capital
\* eth (U+00D0, bytes C3 90).
WideRunes == {"ya", "YA", "N~", "ETH"}
Utf8(r) ==
    CASE r = "ya" -> <<"D1", "8F">>
      [] r = "YA" -> <<"D0", "AF">>
      [] r = "N~" -> <<"C3", "91">>
      [] r = "ETH" -> <<"C3", "90">>
      [] OTHER -> <<r>>

\* The bytes of a text given as its characters.
RECURSIVE Bytes(_)
Bytes(chars) == IF chars = <<>> THEN <<>> ELSE Utf8(Head(chars)) \o Bytes(Tail(chars))

\* The characters of a well-formed UTF-8 byte sequence.
RECURSIVE Runes(_)
Runes(bytes) ==
    IF bytes = <<>> THEN <<>>
    ELSE IF Len(bytes) >= 2 /\ \E r \in WideRunes : Utf8(r) = SubSeq(bytes, 1, 2)
    THEN <<CHOOSE r \in WideRunes : Utf8(r) = SubSeq(bytes, 1, 2)>>
             \o Runes(SubSeq(bytes, 3, Len(bytes)))
    ELSE <<Head(bytes)>> \o Runes(Tail(bytes))

\* unicode.ToUpper
ToUpperRune(r) == IF r = "ya" THEN "YA" ELSE ToUpperChar(r)
\* strings.ToUpper on bytes: the characters are decoded, mapped, encoded.
ToUpperUtf8(bytes) ==
    LET rs == Runes(bytes) IN Bytes([i \in 1..Len(rs) |-> ToUpperRune(rs[i])])

\* string(b) for a byte b: the UTF-8 encoding of the code point whose
\* number is the byte's value, so for a byte above 7F not the byte itself.
RuneOfByte(b) ==
    CASE b = "D1" -> "N~"
      [] b = "D0" -> "ETH"
      [] OTHER -> b
\* string(text[0])
StringOfByte(text) == Utf8(RuneOfByte(text[1]))

\* strings.SplitN(text, sep, 2) for a one-byte sep
SplitN2(text, sep) ==
    IF \E i \in 1..Len(text) : text[i] = sep
    THEN LET k == CHOOSE i \in 1..Len(text) :
                      text[i] = sep /\ \A j \in 1..(i - 1) : text[j] # sep
         IN  <<SubSeq(text, 1, k - 1), SubSeq(text, k + 1, Len(text))>>
    ELSE <<text>>

Separators == <<".", ")", ":">>

\* The loop over the separators from the k-th on, then the fallback to
\* text[0].
RECURSIVE ExtractFrom(_, _)
ExtractFrom(text, k) ==
    IF k > Len(Separators)
    THEN IF Len(text) > 0 THEN ToUpperUtf8(StringOfByte(text)) ELSE <<>>
    ELSE LET parts == SplitN2(text, Separators[k]) IN
         IF Len(parts) >= 2
         THEN ToUpperUtf8(TrimSpace(parts[1]))
         ELSE ExtractFrom(text, k + 1)

extractLetter(text) == ExtractFrom(text, 1)

\* The texts extractLetter is applied to: up to MaxTextLen characters.
TextChars == {"x", "A", ".", ")", ":", " ", "ya"}
Texts == UNION {[1..n -> TextChars] : n \in 0..MaxTextLen}

\* The state of the bot while extractLetter is looked at on its own.
BotAtRest ==
    /\ Themes = BankNone
    /\ Users = [u \in UserIds |-> Nil]
    /\ heap = [a \in Addrs |-> ZeroState]
    /\ mu = Free
    /\ proc = [w \in WorkerIds |-> IdleProc]
    /\ out = [w \in WorkerIds |-> NoMsg]
    /\ sendFailed = [w \in WorkerIds |-> FALSE]
    /\ hist = [a \in Addrs |-> <<>>]
    /\ crashed = FALSE

InitExtract ==
    /\ BotAtRest
    /\ \E t \in Texts : extract = [text |-> t, done |-> FALSE, letter |-> <<>>]

\* letter := extractLetter(text)
ExtractLetterCall ==
    /\ ~extract.done
    /\ extract' = [extract EXCEPT !.done = TRUE,
                                  !.letter = extractLetter(Bytes(extract.text))]
    /\ UNCHANGED <<Themes, Users, heap, mu, proc, out, sendFailed, hist, crashed>>

NextExtract == ExtractLetterCall
SpecExtract == InitExtract /\ [][NextExtract]_vars

(***************************************************************************)
(* The single-topic program (unnamed/part_000)                             *)
(***************************************************************************)
\* Its state has the same shape and is kept in the same variables: Users is
\* its global userStates, mu its global mutex (a plain sync.Mutex), Themes
\* holds its one list `questions` under the name of its file, and a
\* UserState uses CurrentQuestion, Score and QuestionOrder only.
QuestionsFile == <<"q">>
questions == Themes[QuestionsFile]
userStates == Users

\* loadQuestions: CorrectOption is normalised once, at load time.
LoadCorrectOption(raw) == extractLetter(ToUpperUtf8(TrimSpace(Bytes(raw))))
\* A record of questions.json: its options and its correct_answer text.
LegacyQuestion(i) ==
    [Options |-> <<<<"A", ".", " ", "x">>, <<"B", ".", " ", "y">>>>,
     CorrectOption |-> LoadCorrectOption(IF i % 2 = 1 THEN <<"a">>
                                         ELSE <<"B", ".", " ", "y">>)]
LegacyList(n) == [i \in 1..n |-> LegacyQuestion(i)]
LegacyBanks == {(QuestionsFile :> LegacyList(n)) : n \in 0..MaxQuestions}

\* The payloads of the answer buttons (and what a client may send instead).
LegacyPayloads == {AnswerA, AnswerBLower}

InitLegacy ==
    /\ Themes \in LegacyBanks
    /\ Users = [u \in UserIds |-> Nil]
    /\ heap = [a \in Addrs |-> ZeroState]
    /\ mu = Free
    /\ proc = [w \in WorkerIds |-> IdleProc]
    /\ out = [w \in WorkerIds |-> NoMsg]
    /\ sendFailed = [w \in WorkerIds |-> FALSE]
    /\ hist = [a \in Addrs |-> <<>>]
    /\ crashed = FALSE
    /\ extract = NoExtract

\* The orders /start and /restart (identity) and /random (shuffled) store.
LegacyOrders(kind) ==
    IF kind = "random"
    THEN {Shuffle(Identity(Len(questions)), js) : js \in Draws(Len(questions))}
    ELSE {Identity(Len(questions))}

\* handleStartCommand, handleRestartCommand, handleRandomCommand:
\* Lock; userStates[id] = &UserState{0, 0, order}; Unlock
LgStore(w) ==
    /\ ~crashed /\ proc[w].pc = "lg_lock" /\ CanLock
    /\ \E order \in LegacyOrders(proc[w].kind) :
         LET a == NewAddr IN
         Commit([Users EXCEPT ![proc[w].user] = a],
                [heap EXCEPT ![a] = [ZeroState EXCEPT !.QuestionOrder = order]],
                [proc EXCEPT ![w].pc = IF proc[w].kind = "restart"
                                       THEN "lg_restarted" ELSE "lq_read"],
                [hist EXCEPT ![a] = <<>>])
    /\ UNCHANGED <<Themes, mu, out, sendFailed, crashed>>

\* handleRestartCommand: "restarted", then sendQuestion
LgRestarted(w) ==
    /\ ~crashed /\ proc[w].pc = "lg_restarted"
    /\ Send(w, Msg("Restarted", 0, 0))
    /\ Commit(Users, heap, [proc EXCEPT ![w].pc = "lq_read"], hist)
    /\ UNCHANGED <<Themes, mu, crashed>>

\* handleHelpCommand
LgHelp(w) ==
    /\ ~crashed /\ proc[w].pc = "lg_help"
    /\ Send(w, Msg("Help", 0, 0))
    /\ Commit(Users, heap, [proc EXCEPT ![w] = Returned(@)], hist)
    /\ UNCHANGED <<Themes, mu, crashed>>

\* sendQuestion: Lock; state, exists := userStates[userID]; Unlock
LqRead(w) ==
    /\ ~crashed /\ proc[w].pc = "lq_read" /\ CanLock
    /\ Commit(Users, heap,
              [proc EXCEPT ![w].pc = "lq_check", ![w].state = Users[proc[w].user]],
              hist)
    /\ UNCHANGED <<Themes, mu, out, sendFailed, crashed>>

\* sendQuestion: no session; quiz complete (a message, then the delete);
\* otherwise on to the current question. The session is read through the
\* pointer, without the mutex.
LqCheck(w) ==
    /\ ~crashed /\ proc[w].pc = "lq_check"
    /\ LET p == proc[w]
           s == heap[p.state]
       IN  IF p.state = Nil
           THEN /\ Send(w, Msg("StartFirst", 0, 0))
                /\ Commit(Users, heap, [proc EXCEPT ![w] = Ret(p)], hist)
           ELSE IF s.CurrentQuestion >= Len(questions)
           THEN /\ Send(w, Msg("Completed", s.Score, Len(questions)))
                /\ Commit(Users, heap, [proc EXCEPT ![w].pc = "lg_del"], hist)
           ELSE /\ Commit(Users, heap, [proc EXCEPT ![w].pc = "lq_index"], hist)
                /\ UNCHANGED <<out, sendFailed>>
    /\ UNCHANGED <<Themes, mu, crashed>>

\* sendQuestion: questions[state.QuestionOrder[state.CurrentQuestion]],
\* the position read once more; then the question is sent.
LqIndex(w) ==
    /\ ~crashed /\ proc[w].pc = "lq_index"
    /\ LET p == proc[w]
           s == heap[p.state]
       IN  IF \/ s.CurrentQuestion >= Len(s.QuestionOrder)
              \/ CurrentIndex(s) >= Len(questions)
           THEN /\ Panic(w)
                /\ UNCHANGED <<out, sendFailed>>
           ELSE /\ Send(w, Msg("Question", CurrentIndex(s), 0))
                /\ Commit(Users, heap, [proc EXCEPT ![w] = Ret(p)], hist)
                /\ UNCHANGED crashed
    /\ UNCHANGED <<Themes, mu>>

\* Lock; delete(userStates, userID); Unlock: at the end of sendQuestion's
\* and of handleCallbackQuery's completion branch.
LgDelete(w) ==
    /\ ~crashed /\ proc[w].pc = "lg_del" /\ CanLock
    /\ LET p == proc[w] IN
       Commit([Users EXCEPT ![p.user] = Nil], heap,
              [proc EXCEPT ![w] = IF p.kind = "callback"
                                  THEN At(p, "lc_ack") ELSE Ret(p)],
              hist)
    /\ UNCHANGED <<Themes, mu, out, sendFailed, crashed>>

\* handleCallbackQuery: Lock; state, exists := userStates[userID]; Unlock
LcRead(w) ==
    /\ ~crashed /\ proc[w].pc = "lc_read" /\ CanLock
    /\ Commit(Users, heap,
              [proc EXCEPT ![w].pc = "lc_check", ![w].state = Users[proc[w].user]],
              hist)
    /\ UNCHANGED <<Themes, mu, out, sendFailed, crashed>>

\* handleCallbackQuery: no session, or quiz complete: a message and the
\* acknowledgement; otherwise on to the grading. No mutex is held.
LcCheck(w) ==
    /\ ~crashed /\ proc[w].pc = "lc_check"
    /\ LET p == proc[w]
           s == heap[p.state]
       IN  IF p.state = Nil
           THEN /\ Send(w, Msg("PleaseStart", 0, 0))
                /\ Commit(Users, heap, [proc EXCEPT ![w] = At(p, "lc_ack")], hist)
           ELSE IF s.CurrentQuestion >= Len(questions)
           THEN /\ Send(w, Msg("AlreadyDone", 0, 0))
                /\ Commit(Users, heap, [proc EXCEPT ![w] = At(p, "lc_ack")], hist)
           ELSE /\ Commit(Users, heap, [proc EXCEPT ![w].pc = "lc_grade"], hist)
                /\ UNCHANGED <<out, sendFailed>>
    /\ UNCHANGED <<Themes, mu, crashed>>

\* handleCallbackQuery: the current question is read (the position once
\* more) and the selected letter compared with its CorrectOption; for
\* state.Score++ the score is read here and written in LcScore.
LcGrade(w) ==
    /\ ~crashed /\ proc[w].pc = "lc_grade"
    /\ LET p == proc[w]
           s == heap[p.state]
       IN  IF \/ s.CurrentQuestion >= Len(s.QuestionOrder)
              \/ CurrentIndex(s) >= Len(questions)
           THEN Panic(w)
           ELSE LET qi == CurrentIndex(s)
                    right == SelectedLetter(p.data) = questions[qi + 1].CorrectOption
                IN  /\ Commit(Users, heap,
                              [proc EXCEPT ![w].pc = "lc_score",
                                           ![w].pos = s.CurrentQuestion,
                                           ![w].score = s.Score,
                                           ![w].data = IF right THEN AnswerA ELSE EmptyStr],
                              [hist EXCEPT ![p.state] =
                                  Append(@, [pos |-> s.CurrentQuestion, q |-> qi,
                                             ok |-> right])])
                    /\ UNCHANGED crashed
    /\ UNCHANGED <<Themes, mu, out, sendFailed>>

\* handleCallbackQuery: the write of state.Score++ (for a right answer),
\* outside any critical section; the reply is composed from the score
\* then stored.
LcScore(w) ==
    /\ ~crashed /\ proc[w].pc = "lc_score"
    /\ LET p == proc[w]
           right == p.data # EmptyStr
           score == IF right THEN p.score + 1 ELSE heap[p.state].Score
       IN  Commit(Users, [heap EXCEPT ![p.state].Score = score],
                  [proc EXCEPT ![w].pc = "lc_result",
                               ![w].data = EmptyStr,
                               ![w].score = 0,
                               ![w].msg = Msg(IF right THEN "Correct" ELSE "Incorrect",
                                              score, Len(questions))],
                  hist)
    /\ UNCHANGED <<Themes, mu, out, sendFailed, crashed>>

\* handleCallbackQuery: the result is sent.
LcSendResult(w) ==
    /\ ~crashed /\ proc[w].pc = "lc_result"
    /\ Send(w, proc[w].msg)
    /\ Commit(Users, heap, [proc EXCEPT ![w].pc = "lc_advance", ![w].msg = NoMsg], hist)
    /\ UNCHANGED <<Themes, mu, crashed>>

\* handleCallbackQuery: Lock; state.CurrentQuestion++;
\* userStates[userID] = state; Unlock
LcAdvance(w) ==
    /\ ~crashed /\ proc[w].pc = "lc_advance" /\ CanLock
    /\ LET p == proc[w] IN
       Commit([Users EXCEPT ![p.user] = p.state],
              [heap EXCEPT ![p.state] = Advance(@)],
              [proc EXCEPT ![w].pc = "lc_next"], hist)
    /\ UNCHANGED <<Themes, mu, out, sendFailed, crashed>>

\* handleCallbackQuery: the next question, or the final score and on to
\* the delete.
LcNext(w) ==
    /\ ~crashed /\ proc[w].pc = "lc_next"
    /\ LET p == proc[w]
           s == heap[p.state]
       IN  IF s.CurrentQuestion < Len(questions)
           THEN /\ Commit(Users, heap,
                          [proc EXCEPT ![w] = [At(p, "lq_read") EXCEPT !.ret = "lc_ack"]],
                          hist)
                /\ UNCHANGED <<out, sendFailed>>
           ELSE /\ Send(w, Msg("Final", s.Score, Len(questions)))
                /\ Commit(Users, heap, [proc EXCEPT ![w].pc = "lg_del"], hist)
    /\ UNCHANGED <<Themes, mu, crashed>>

\* answerCallback(bot, callback.ID)
LcAck(w) ==
    /\ ~crashed /\ proc[w].pc = "lc_ack"
    /\ Send(w, Msg("Ack", 0, 0))
    /\ Commit(Users, heap, [proc EXCEPT ![w] = Returned(@)], hist)
    /\ UNCHANGED <<Themes, mu, crashed>>

\* A step of a handler of the single-topic program that is under way.
LegacyStep ==
    \E w \in WorkerIds :
        \/ LgStore(w) \/ LgRestarted(w) \/ LgHelp(w)
        \/ LqRead(w) \/ LqCheck(w) \/ LqIndex(w) \/ LgDelete(w)
        \/ LcRead(w) \/ LcCheck(w) \/ LcGrade(w) \/ LcScore(w)
        \/ LcSendResult(w) \/ LcAdvance(w) \/ LcNext(w) \/ LcAck(w)
        \/ Finish(w)

\* main's loop over the updates: the command or callback handler is
\* entered; with `overlap`, an answer callback also while another handler
\* is under way.
LegacyDispatch(overlap, U) ==
    \E w \in WorkerIds, u \in U :
        \/ \E k \in {"start", "restart", "random"} :
              Begin(FALSE, w, k, u, EmptyStr, "lg_lock")
        \/ Begin(FALSE, w, "help", u, EmptyStr, "lg_help")
        \/ \E d \in LegacyPayloads : Begin(overlap, w, "callback", u, d, "lc_read")

\* main as written: the handlers run one after the other.
NextLegacy == LegacyDispatch(FALSE, UserIds) \/ LegacyStep
SpecLegacy == InitLegacy /\ [][NextLegacy]_vars

\* The answer callbacks of one user entered concurrently.
NextLegacyConc == LegacyDispatch(TRUE, OneUser) \/ LegacyStep
SpecLegacyConc == InitLegacy /\ [][NextLegacyConc]_vars

(***************************************************************************)
(* Properties                                                              *)
(***************************************************************************)
\* The sessions of the table.
HasSession(u) == Users[u] # Nil
Session(u) == heap[Users[u]]
\* The question count of a session's topic (0 for a topic not in the bank).
NQ(s) == Len(QuestionsOf(s.SelectedTheme))
\* A session whose setup is over.
InProgress(s) == s.SetupStep \notin {"select_theme", "select_order"}
IsPermutation(order, n) ==
    Len(order) = n /\ {order[i] : i \in 1..Len(order)} = 0..(n - 1)

\* C1: whenever the mutex is free, every session of App.Users has
\* 0 <= Score <= CurrentQuestion <= len(QuestionOrder).
ScoreWithinPosition ==
    mu = Free =>
        \A u \in UserIds :
            HasSession(u) =>
                /\ 0 <= Session(u).Score
                /\ Session(u).Score <= Session(u).CurrentQuestion
                /\ Session(u).CurrentQuestion <= Len(Session(u).QuestionOrder)

\* A session with a right and a wrong answer counted, the mutex free.
ScoreWithinPositionReached ==
    /\ mu = Free
    /\ \E u \in UserIds :
          /\ HasSession(u)
          /\ Session(u).Score = 1
          /\ Session(u).CurrentQuestion = 2

\* A callback handler at the delete of its own completion branch (not of
\* the sendQuestion it calls after an order choice).
Completing(w) ==
    proc[w].kind = "callback" /\ proc[w].pc = "del" /\ proc[w].ret = "idle"
\* A handler that has graded an answer of the session it holds.
HasGraded(w) ==
    \/ proc[w].kind = "callback" /\ proc[w].pc \in {"cb_advance", "cb_result", "cb_final"}
    \/ Completing(w)

\* C2: answer callbacks of one user that overlap are serialized by the
\* mutex: no two of them read the same CurrentQuestion of a session and
\* advance from it. The k-th answer graded on a session read position k-1
\* and graded the question the order has there, and once the mutex is free
\* the position is the number of answers graded.
AnswersSerialized ==
    /\ \A a \in Addrs :
          /\ \A i \in 1..Len(hist[a]) :
                /\ hist[a][i].pos = i - 1
                /\ i <= Len(heap[a].QuestionOrder)
                /\ hist[a][i].q = heap[a].QuestionOrder[i]
          /\ (mu = Free /\ InProgress(heap[a])) =>
                heap[a].CurrentQuestion = Len(hist[a])
    /\ \A v, w \in WorkerIds :
          (v # w /\ HasGraded(v) /\ HasGraded(w) /\ proc[v].state = proc[w].state)
              => proc[v].pos # proc[w].pos

\* Two answer handlers of the user under way on the same session, both
\* past the grading.
AnswersSerializedReached ==
    \E v, w \in WorkerIds :
        /\ v # w
        /\ HasGraded(v) /\ HasGraded(w)
        /\ proc[v].state = proc[w].state
        /\ proc[v].user = proc[w].user
        /\ Len(hist[proc[v].state]) = 2

\* Every answer graded on the session was right, one for each question.
AllRight(a, n) == Len(hist[a]) = n /\ \A i \in 1..Len(hist[a]) : hist[a][i].ok

\* C3: after N answers that each name a correct label of the question
\* shown, on a topic of N >= 1 questions, the completion message reports N
\* of N and the user's entry is removed from App.Users; a further answer
\* of that user is handled as the no-session case.
PerfectRunCompletes ==
    \A w \in WorkerIds :
        LET p == proc[w] IN
        p.kind = "callback" =>
            /\ (Completing(w) /\ AllRight(p.state, p.nq))
                   => (p.nq >= 1 /\ out[w] = Msg("Final", p.nq, p.nq))
            /\ (p.pc = "cb_ack" /\ out[w].kind = "Final") => ~HasSession(p.user)
            /\ ~HasSession(p.user) =>
                   /\ p.pc \in {"cb_lock", "cb_send", "cb_ack", "done"}
                   /\ p.pc = "cb_send" => p.msg = Msg("PleaseStart", 0, 0)

\* The last of MaxQuestions right answers has been handled: the final
\* message is out and the entry is about to be removed.
PerfectRunCompletesReached ==
    \E w \in WorkerIds :
        /\ Completing(w)
        /\ proc[w].nq = MaxQuestions
        /\ AllRight(proc[w].state, MaxQuestions)
        /\ out[w] = Msg("Final", MaxQuestions, MaxQuestions)

\* The step of /restart that stores the new session.
RestartStep(w) == proc[w].pc = "rs_lock" /\ proc'[w].pc = "rs_send"
\* The step of /restart that finds no question in the bank.
RestartRefused(w) == proc[w].pc = "rs_check" /\ proc'[w].pc = "done"
FreshSession == [ZeroState EXCEPT !.SetupStep = "select_theme"]

\* C4 (as the code has it): /restart in any phase replaces the session by
\* one at position 0 with score 0 that is InProgress (SetupStep ""), keeps
\* the old session's SelectedTheme and has the order 0..T-1 over the T
\* questions of all topics; with no question in the bank the table is left
\* as it is and "no questions" is sent.
RestartKeepsTopic ==
    [][\A w \in WorkerIds :
          /\ RestartStep(w) =>
                LET u == proc[w].user IN
                /\ Users'[u] # Nil
                /\ hist'[Users'[u]] = <<>>
                /\ heap'[Users'[u]] =
                       [CurrentQuestion |-> 0, Score |-> 0,
                        QuestionOrder |-> [i \in 1..AllQuestionsLen |-> i - 1],
                        SelectedTheme |-> Session(u).SelectedTheme,
                        SetupStep |-> ""]
          /\ RestartRefused(w) =>
                /\ AllQuestionsLen = 0
                /\ Users' = Users /\ heap' = heap
                /\ out'[w] = Msg("NoQuestions", 0, 0)]_vars

\* /restart has stored its session for a user who was in a quiz or at the
\* order choice: the topic is still there.
RestartKeepsTopicReached ==
    \E w \in WorkerIds :
        /\ proc[w].kind = "restart" /\ proc[w].pc = "rs_send"
        /\ HasSession(proc[w].user)
        /\ Session(proc[w].user).SelectedTheme = ThemeB
        /\ Session(proc[w].user).SetupStep = ""
        /\ Len(Session(proc[w].user).QuestionOrder) = 2

\* C4 as stated: /restart leaves a fresh session in AwaitingTopic
\* (SetupStep "select_theme", no topic, no order).
RestartReturnsToTopicChoice ==
    [][\A w \in WorkerIds :
          RestartStep(w) =>
              /\ Users'[proc[w].user] # Nil
              /\ heap'[Users'[proc[w].user]] = FreshSession]_vars

\* A session of the table that is InProgress and has used up the n >= 1
\* questions of its topic.
Complete(s) == InProgress(s) /\ NQ(s) >= 1 /\ s.CurrentQuestion >= NQ(s)

\* C5 (as the code has it): the entry of a completed quiz (topic of n >= 1
\* questions, position n) is removed in a later critical section of the
\* handler that completed it: with the mutex free such a session is in the
\* table only while that handler is between its position update and its
\* delete, and never once the handler is over.
CompletedOnlyWhileCompleting ==
    \A u \in UserIds :
        (mu = Free /\ HasSession(u) /\ Complete(Session(u))) =>
            \E w \in WorkerIds :
                /\ proc[w].user = u
                /\ proc[w].state = Users[u]
                /\ proc[w].kind = "callback"
                /\ proc[w].pc \in {"cb_result", "cb_final", "del"}

\* The completing handler has removed the entry and is about to return.
CompletedOnlyWhileCompletingReached ==
    \E w \in WorkerIds :
        /\ proc[w].kind = "callback" /\ proc[w].pc = "cb_ack"
        /\ out[w].kind = "Final"
        /\ ~HasSession(proc[w].user)
        /\ mu = Free

\* C5 as stated: whenever the mutex is free, no session of the table is
\* InProgress with CurrentQuestion equal to the question count of its
\* topic.
NoCompletedSessionStored ==
    mu = Free =>
        \A u \in UserIds :
            HasSession(u) =>
                ~(InProgress(Session(u)) /\ Session(u).SelectedTheme \in DOMAIN Themes
                  /\ Session(u).CurrentQuestion = NQ(Session(u)))

\* The step that handles a "theme_<name>" payload in AwaitingTopic.
TopicStep(w) ==
    /\ proc[w].pc = "cb_switch" /\ proc'[w].pc # "cb_switch"
    /\ heap[proc[w].state].SetupStep = "select_theme"
    /\ HasPrefix(proc[w].data, ThemePrefix)
\* The step that handles an order payload in AwaitingOrder.
OrderStep(w) ==
    /\ proc[w].pc = "cb_switch" /\ proc'[w].pc # "cb_switch"
    /\ heap[proc[w].state].SetupStep = "select_order"
    /\ proc[w].data \in {OrderOrdered, OrderRandom}

\* C6 (as the code has it): in AwaitingTopic a payload "theme_<name>" is
\* accepted whether or not <name> is a topic of the bank: SelectedTheme
\* becomes <name>, SetupStep "select_order", and the order choice is
\* offered. The error comes with the order payload that follows: for a
\* topic that is unknown or has no questions the session is left as it is
\* and "unavailable" is sent.
UnknownTopicRefusedAtOrder ==
    [][\A w \in WorkerIds :
          LET a == proc[w].state
              u == proc[w].user
          IN  /\ TopicStep(w) =>
                    /\ heap'[Users'[u]] =
                           [heap[a] EXCEPT !.SelectedTheme =
                                               TrimPrefix(proc[w].data, ThemePrefix),
                                           !.SetupStep = "select_order"]
                    /\ proc'[w].msg = Msg("OrderChoice", 0, 0)
              /\ (OrderStep(w) /\ NQ(heap[a]) = 0) =>
                    /\ heap'[Users'[u]] = heap[a]
                    /\ proc'[w].msg = Msg("Unavailable", 0, 0)]_vars

\* A topic that is not in the bank has been accepted.
UnknownTopicRefusedAtOrderReached ==
    \E w \in WorkerIds :
        /\ proc[w].kind = "callback" /\ proc[w].pc = "cb_send"
        /\ proc[w].msg = Msg("OrderChoice", 0, 0)
        /\ HasSession(proc[w].user)
        /\ Session(proc[w].user).SetupStep = "select_order"
        /\ Session(proc[w].user).SelectedTheme = ThemeB
        /\ ThemeB \notin DOMAIN Themes /\ ThemeA \in DOMAIN Themes

\* C6 as stated: in AwaitingTopic a payload "theme_<name>" whose <name> is
\* not a topic of the bank leaves the session unchanged and produces an
\* error message.
UnknownTopicRefused ==
    [][\A w \in WorkerIds :
          (TopicStep(w) /\ TrimPrefix(proc[w].data, ThemePrefix) \notin DOMAIN Themes) =>
              /\ heap'[Users'[proc[w].user]] = heap[proc[w].state]
              /\ proc'[w].msg = Msg("Unavailable", 0, 0)]_vars

\* C7 (as the code has it): with a bank of no topics /start sends "no
\* topics", but it has stored a fresh AwaitingTopic session for the user
\* before it looks at the bank.
StartStoresSessionWithoutTopics ==
    \A w \in WorkerIds :
        (proc[w].kind = "start" /\ proc[w].pc = "done" /\ DOMAIN Themes = {}) =>
            /\ out[w] = Msg("NoThemes", 0, 0)
            /\ HasSession(proc[w].user)
            /\ Session(proc[w].user) = FreshSession

\* /start has been handled with a bank of no topics.
StartStoresSessionWithoutTopicsReached ==
    \E w \in WorkerIds :
        /\ proc[w].kind = "start" /\ proc[w].pc = "done"
        /\ DOMAIN Themes = {}
        /\ out[w] = Msg("NoThemes", 0, 0)
        /\ HasSession(proc[w].user)

\* C7 as stated: with a bank of no topics /start sends "no topics" and
\* leaves App.Users as it was.
StartWithoutTopicsLeavesUsers ==
    [][\A w \in WorkerIds :
          (proc[w].kind = "start" /\ DOMAIN Themes = {} /\ proc'[w] # proc[w]) =>
              /\ Users' = Users
              /\ (proc'[w].pc = "done" => out'[w] = Msg("NoThemes", 0, 0))]_vars

\* The step that grades an answer payload of an InProgress session whose
\* position is below the question count of its topic, and the step that
\* advances the position.
AnswerStep(w) ==
    /\ proc[w].pc = "cb_switch" /\ proc'[w].pc # "cb_switch"
    /\ InProgress(heap[proc[w].state])
    /\ heap[proc[w].state].CurrentQuestion < NQ(heap[proc[w].state])
AdvanceStep(w) == proc[w].pc = "cb_advance" /\ proc'[w].pc # "cb_advance"
\* The payload names, after trimming and without regard to case, a correct
\* label of question qi of the session's topic.
NamesCorrectLabel(s, qi, data) ==
    /\ qi < NQ(s)
    /\ \E i \in 1..Len(QuestionsOf(s.SelectedTheme)[qi + 1].CorrectAnswer) :
          EqualFold(QuestionsOf(s.SelectedTheme)[qi + 1].CorrectAnswer[i],
                    TrimSpace(data))

\* C8 as stated: in an InProgress session with CurrentQuestion below the
\* question count every answer event raises CurrentQuestion by exactly 1;
\* Score goes up by 1 when the payload names a correct label of the current
\* question and is unchanged otherwise, the empty and the unmatched payload
\* included.
AnswerAlwaysAdvances ==
    [][\A w \in WorkerIds :
          LET a == proc[w].state
              s == heap[a]
          IN  /\ AnswerStep(w) =>
                    /\ proc'[w].pc = "cb_advance"
                    /\ s.CurrentQuestion < Len(s.QuestionOrder)
                    /\ heap'[a] =
                           [s EXCEPT !.Score =
                               IF NamesCorrectLabel(s, s.QuestionOrder[s.CurrentQuestion + 1],
                                                    proc[w].data)
                               THEN @ + 1 ELSE @]
              /\ AdvanceStep(w) =>
                    heap'[a] = [s EXCEPT !.CurrentQuestion = @ + 1]]_vars

\* The step that handles an order payload for a topic with questions.
OrderChosen(w) == OrderStep(w) /\ NQ(heap[proc[w].state]) >= 1

InProgressOrderIsPermutation ==
    \A u \in UserIds :
        (HasSession(u) /\ InProgress(Session(u))) =>
            /\ Session(u).SelectedTheme \in DOMAIN Themes
            /\ IsPermutation(Session(u).QuestionOrder, NQ(Session(u)))

\* The payloads of the topic buttons and of the order buttons.
TopicPayloads == {ThemePrefix \o ThemeA, ThemePrefix \o ThemeB}
OrderPayloads == {OrderOrdered, OrderRandom}
\* The step of a callback handler out of the switch on SetupStep.
SwitchStep(w) == proc[w].pc = "cb_switch" /\ proc'[w].pc # "cb_switch"

\* C11 (as the code has it): a payload that does not fit the phase gets no
\* error message. In AwaitingTopic a payload that is no topic payload, and
\* in AwaitingOrder a payload that is no order payload, leave the session
\* as it is and nothing is sent but the callback's acknowledgement. In
\* InProgress a topic or order payload is graded like any answer: unless
\* the grading panics it matches no label, "incorrect" is composed, the
\* score stays and the position is advanced.
MisplacedPayloadHandling ==
    [][\A w \in WorkerIds :
          LET a == proc[w].state
              s == heap[a]
              d == proc[w].data
          IN  /\ (SwitchStep(w) /\ s.SetupStep = "select_theme" /\ d \notin TopicPayloads) =>
                    /\ heap'[Users'[proc[w].user]] = s
                    /\ proc'[w].pc = "cb_ack" /\ out'[w] = NoMsg
              /\ (SwitchStep(w) /\ s.SetupStep = "select_order" /\ d \notin OrderPayloads) =>
                    /\ heap'[Users'[proc[w].user]] = s
                    /\ proc'[w].pc = "cb_ack" /\ out'[w] = NoMsg
              /\ (SwitchStep(w) /\ InProgress(s) /\ s.CurrentQuestion < NQ(s)
                  /\ d \in TopicPayloads \cup OrderPayloads /\ ~crashed') =>
                    /\ proc'[w].pc = "cb_advance"
                    /\ proc'[w].msg.kind = "Incorrect"
                    /\ heap'[a] = s
              /\ (AdvanceStep(w) /\ proc[w].msg.kind = "Incorrect") =>
                    heap'[a] = [s EXCEPT !.CurrentQuestion = @ + 1]]_vars

\* A payload that is no order payload has been dropped in AwaitingOrder:
\* the handler is at its acknowledgement and has sent nothing.
MisplacedPayloadHandlingReached ==
    \E w \in WorkerIds :
        /\ proc[w].kind = "callback" /\ proc[w].pc = "cb_ack"
        /\ out[w] = NoMsg
        /\ HasSession(proc[w].user)
        /\ Session(proc[w].user).SetupStep = "select_order"
        /\ Session(proc[w].user).SelectedTheme = ThemeA

\* C11 as stated: a payload that does not fit the phase leaves the session
\* unchanged and an error message is sent.
MisplacedPayloadRefused ==
    [][\A w \in WorkerIds :
          LET s == heap[proc[w].state]
              d == proc[w].data
          IN  (/\ SwitchStep(w)
               /\ \/ s.SetupStep = "select_theme" /\ d \notin TopicPayloads
                  \/ s.SetupStep = "select_order" /\ d \notin OrderPayloads
                  \/ InProgress(s) /\ d \in TopicPayloads \cup OrderPayloads) =>
              /\ heap'[proc[w].state] = s
              /\ proc'[w].pc = "cb_send"
              /\ proc'[w].msg.kind \in {"Invalid", "Unavailable", "AlreadyDone", "PleaseStart"}]_vars

\* C12 as stated: every handler is total; none reaches a runtime failure,
\* whatever the session situation and the event, /restart for a user
\* without a session included.
HandlersAreTotal ==
    /\ ~crashed
    /\ \A w \in WorkerIds : proc[w].pc # "panic"

\* A step in which handler w performs an outbound send (Bot.Send or
\* Bot.Request): the last message it has sent changes to a message.
Sends(w) == out'[w] # out[w] /\ out'[w] # NoMsg

\* C13 as stated: no handler performs an outbound send while it holds the
\* table mutex; on every path the lock has been released before the send.
NoSendUnderLock ==
    [][\A w \in WorkerIds : Sends(w) => (mu # w /\ mu' # w)]_vars

\* Handler w is under way (it has been entered and has not returned to the
\* update loop), and it is at an outbound send.
InFlight(w) == proc[w].pc # "idle"
AtSend(w) ==
    proc[w].pc \in {"st_send", "help_send", "rs_send", "sq_check", "sq_index",
                    "cb_send", "cb_result", "cb_final", "cb_ack"}

\* C14 (as the code has it): the update loop calls each handler and waits
\* for it to return, so handlers never overlap, for the same user or for
\* different ones: while a handler is under way, waiting on a send or not,
\* no other update is dispatched, and no two handlers are ever in flight.
OneHandlerAtATime ==
    /\ \A v, w \in WorkerIds : (v # w /\ InFlight(v)) => ~InFlight(w)
    /\ (\E w \in WorkerIds : InFlight(w)) => ~ENABLED Dispatch(FALSE, UserIds)

\* One user's handler is at a send while the other user, whose earlier
\* update has been handled, has a session; no second handler is running.
OneHandlerAtATimeReached ==
    \E w \in WorkerIds :
        /\ proc[w].user = "u1" /\ proc[w].pc = "cb_result"
        /\ HasSession("u2")
        /\ \A v \in WorkerIds \ {w} : ~InFlight(v)

\* C14 as stated: updates of different users do not block each other: while
\* the handler of one user's update is waiting on an outbound send, the
\* handling of another user's update can start.
OtherUsersNotBlocked ==
    \A w \in WorkerIds :
        (AtSend(w) /\ ~crashed) =>
            \E v \in WorkerIds \ {w}, u \in UserIds \ {proc[w].user} :
                ENABLED DispatchStart(FALSE, v, u)

\* The table entry of user v: nothing, or the session it points to.
EntryOf(v) == IF Users[v] = Nil THEN <<>> ELSE <<heap[Users[v]]>>
\* Handler w, under way for an event of user u, takes a step.
StepFor(w, u) ==
    /\ proc[w].user = u
    /\ proc[w].pc \notin {"idle", "done"}
    /\ proc'[w] # proc[w]

FailedSend(w) == out'[w] # out[w] /\ sendFailed'[w]
FeedbackKinds == {"Correct", "Incorrect", "Invalid"}

\* C16: a failed outbound send is not fatal and reverts nothing. The step
\* of a send that fails leaves every table entry as it was and ends no
\* process; and what the handler does to the table is what it does when
\* the send succeeds: after a feedback send that failed the position still
\* counts the answer, and after a completion send that failed the entry is
\* deleted all the same.
FailedSendKeepsState ==
    [][/\ \A w \in WorkerIds :
             FailedSend(w) =>
                 /\ \A u \in UserIds : EntryOf(u)' = EntryOf(u)
                 /\ proc[w].pc # "cb_switch" => crashed' = crashed
                 /\ proc'[w].pc # proc[w].pc
       /\ \A w \in WorkerIds :
             LET a == Users'[proc'[w].user] IN
             (sendFailed'[w] /\ proc'[w].kind = "callback") =>
                 /\ (out'[w].kind \in FeedbackKinds /\ a # Nil) =>
                        /\ heap'[a].CurrentQuestion >= 1
                        /\ heap'[a].CurrentQuestion = Len(hist'[a])
                 /\ (out'[w].kind = "Final" /\ proc'[w].pc \in {"cb_ack", "done"}) =>
                        a = Nil]_vars

\* The send of the final score has failed and the entry has been deleted.
FailedSendKeepsStateReached ==
    \E w \in WorkerIds :
        /\ sendFailed[w]
        /\ proc[w].kind = "callback" /\ proc[w].pc = "cb_ack"
        /\ out[w] = Msg("Final", 1, MaxQuestions)
        /\ ~HasSession(proc[w].user)

\* A question record with at least one option and at least one
\* correct-answer label, every such label a key of its options.
WellFormed(q) ==
    /\ DOMAIN q.Options # {}
    /\ Len(q.CorrectAnswer) >= 1
    /\ \A j \in 1..Len(q.CorrectAnswer) : q.CorrectAnswer[j] \in DOMAIN q.Options

\* C17 as stated: after loading, every question of the bank is well
\* formed, and a record that is not is never served to a session.
BankValidated ==
    /\ \A t \in DOMAIN Themes :
          \A i \in 1..Len(Themes[t]) : WellFormed(Themes[t][i])
    /\ \A w \in WorkerIds :
          (out[w].kind = "Question" /\ HasSession(proc[w].user)
           /\ out[w].a < NQ(Session(proc[w].user))) =>
              WellFormed(QuestionsOf(Session(proc[w].user).SelectedTheme)[out[w].a + 1])


\* The letter C18 describes for a text given as its characters: nothing
\* for the empty text; with none of ".", ")", ":" in it, its first
\* character in upper case; otherwise the upper-cased, trimmed text before
\* the first occurrence of "." if there is one, else of ")", else of ":".
HasChar(chars, c) == \E i \in 1..Len(chars) : chars[i] = c
Before(chars, c) ==
    SubSeq(chars, 1, (CHOOSE i \in 1..Len(chars) :
                          chars[i] = c /\ \A j \in 1..(i - 1) : chars[j] # c) - 1)
UpperChars(chars) == [i \in 1..Len(chars) |-> ToUpperRune(chars[i])]
DescribedLetter(chars) ==
    IF chars = <<>> THEN <<>>
    ELSE IF HasChar(chars, ".") THEN UpperChars(TrimSpace(Before(chars, ".")))
    ELSE IF HasChar(chars, ")") THEN UpperChars(TrimSpace(Before(chars, ")")))
    ELSE IF HasChar(chars, ":") THEN UpperChars(TrimSpace(Before(chars, ":")))
    ELSE <<ToUpperRune(chars[1])>>

\* C18 as stated: extractLetter returns the letter described above for
\* every text.
ExtractLetterAsDescribed ==
    extract.done => extract.letter = Bytes(DescribedLetter(extract.text))

\* What does hold: the description is met by every text that has a
\* separator or starts with a one-byte character.
ExtractLetterAsDescribedOneByte ==
    (extract.done /\ extract.text # <<>>
     /\ ~(\E c \in {".", ")", ":"} : HasChar(extract.text, c))
     /\ extract.text[1] \in WideRunes)
    \/ ExtractLetterAsDescribed


\* What handleCallbackQuery does after the position update of an answer:
\* the feedback, the final score, the delete.
Completion(w) == CbSendResult(w) \/ CbSendFinal(w) \/ DeleteSession(w)

\* The handlers as App.Start runs them, where a handler that has accepted
\* an answer is carried on to its end: it runs on its caller's goroutine
\* and nothing but the end of the process stops it.
SpecLive == Spec /\ \A w \in WorkerIds : WF_vars(Completion(w))

\* A quiz as an order choice starts it: the session at address a is
\* InProgress on a topic of the bank with n >= 1 questions and its order is
\* a permutation of 0..n-1. (/start replaces the session by one that awaits
\* a topic; a session stored by /restart is of this shape only where it
\* equals the one "order_ordered" would have stored.)
QuizUnderWay(a) ==
    /\ a # Nil
    /\ InProgress(heap[a])
    /\ heap[a].SelectedTheme \in DOMAIN Themes
    /\ NQ(heap[a]) >= 1
    /\ IsPermutation(heap[a].QuestionOrder, NQ(heap[a]))

\* The answers accepted on the quiz of user u so far are graded in the
\* order of the session: at most N of them, the k-th read at position k-1
\* and graded against question order[k-1], no question twice, and all N
\* questions once the position is N. The position is the number of
\* accepted answers, but for the handler between grading and advancing.
GradedInOrder(u) ==
    LET a == Users[u]
        s == heap[a]
        h == hist[a]
    IN  /\ Len(h) <= NQ(s)
        /\ \A k \in 1..Len(h) : h[k].pos = k - 1 /\ h[k].q = s.QuestionOrder[k]
        /\ \A j, k \in 1..Len(h) : j # k => h[j].q # h[k].q
        /\ \/ s.CurrentQuestion = Len(h)
           \/ /\ s.CurrentQuestion + 1 = Len(h)
              /\ \E w \in WorkerIds : proc[w].pc = "cb_advance" /\ proc[w].state = a
        /\ s.CurrentQuestion = NQ(s) =>
              {h[k].q : k \in 1..Len(h)} = 0..(NQ(s) - 1)

\* The question a handler has shown to user u is the one the next answer
\* of u is graded against: question order[position], no answer to it
\* accepted yet.
ShownIsCurrent(u) ==
    \A w \in WorkerIds :
        (proc[w].pc # "idle" /\ proc[w].user = u /\ out[w].kind = "Question") =>
            /\ Session(u).CurrentQuestion < NQ(Session(u))
            /\ out[w].a = CurrentIndex(Session(u))
            /\ Len(hist[Users[u]]) = Session(u).CurrentQuestion

QuizRunsInOrder ==
    \A u \in UserIds :
        (HasSession(u) /\ QuizUnderWay(Users[u])) =>
            GradedInOrder(u) /\ ShownIsCurrent(u)

\* The N-th answer of user u's quiz has been accepted.
AllAnswered(u) ==
    /\ HasSession(u) /\ QuizUnderWay(Users[u])
    /\ Session(u).CurrentQuestion = NQ(Session(u))

\* C19: in a quiz on a topic of N questions started by an order choice, as
\* long as /start or /restart has not replaced its session, at most N
\* answers are accepted; the k-th is graded against question order[k-1],
\* which is the question sent to the user last; no question is graded twice and after
\* the N-th answer every question has been graded once; and once the N-th
\* answer is accepted the session is eventually removed from the table.
QuizGradesEveryQuestionOnce ==
    /\ [][QuizRunsInOrder']_vars
    /\ \A u \in UserIds : AllAnswered(u) ~> ~HasSession(u)

\* A quiz in a shuffled order has had all its answers accepted and is about
\* to be removed.
QuizGradesEveryQuestionOnceReached ==
    \E w \in WorkerIds :
        /\ proc[w].kind = "callback" /\ proc[w].pc = "del"
        /\ AllAnswered(proc[w].user)
        /\ Session(proc[w].user).QuestionOrder # Identity(NQ(Session(proc[w].user)))
        /\ Len(hist[Users[proc[w].user]]) = MaxQuestions


\* The delete of goroutine w's completion branch.
DeleteStep(w) ==
    /\ proc[w].kind = "callback"
    /\ proc[w].pc = "del" /\ proc'[w].pc # "del"

InCriticalSection(w) == proc[w].pc \in {"cb_switch", "cb_advance"}

\* C21 as stated: every acquisition of app.mu is released before the
\* handler is left, none is released by a handler that does not hold it and
\* none is taken while held: the mutex is free whenever no handler is inside
\* a critical section, and it changes hands only through its holder.
MutexBalanced ==
    [][/\ (mu' # Free => InCriticalSection(mu)')
       /\ (mu # Free /\ mu' # mu) => (mu' = Free /\ proc'[mu] # proc[mu])
       /\ (mu = Free /\ mu' # Free) => (proc[mu'].pc = "cb_lock")]_vars

\* What does hold: the same as long as no handler has panicked.
MutexBalancedUnlessPanic ==
    [][crashed' \/ (/\ (mu' # Free => InCriticalSection(mu)')
                    /\ (mu # Free /\ mu' # mu) => (mu' = Free /\ proc'[mu] # proc[mu])
                    /\ (mu = Free /\ mu' # Free) => (proc[mu'].pc = "cb_lock"))]_vars


\* Goroutine w is about to evaluate QuestionOrder[CurrentQuestion]: in
\* sendQuestion past the completion check, or in the answer branch of
\* handleCallbackQuery past the checks of the topic and of the position.
ReadsCurrentIndex(w) ==
    \/ proc[w].pc = "sq_index"
    \/ /\ proc[w].pc = "cb_switch"
       /\ InProgress(heap[proc[w].state])
       /\ NQ(heap[proc[w].state]) >= 1
       /\ heap[proc[w].state].CurrentQuestion < NQ(heap[proc[w].state])

\* C22: wherever handleCallbackQuery or sendQuestion reads
\* QuestionOrder[CurrentQuestion] and the question at that index, the
\* position is below len(QuestionOrder) and the index is below the question
\* count of the session's topic, also for a session stored by /restart.
IndicesInRange ==
    \A w \in WorkerIds :
        ReadsCurrentIndex(w) =>
            /\ heap[proc[w].state].CurrentQuestion < Len(heap[proc[w].state].QuestionOrder)
            /\ CurrentIndex(heap[proc[w].state]) < NQ(heap[proc[w].state])

\* An answer is about to be graded on a session stored by /restart, whose
\* order is longer than its topic.
IndicesInRangeReached ==
    \E w \in WorkerIds :
        /\ proc[w].pc = "cb_switch" /\ ReadsCurrentIndex(w)
        /\ Len(heap[proc[w].state].QuestionOrder) > NQ(heap[proc[w].state])


\* C23 as stated: in the single-topic program, whenever its mutex is free,
\* every session of userStates has
\* 0 <= Score <= CurrentQuestion <= len(QuestionOrder).
LegacyScoreWithinPosition ==
    mu = Free =>
        \A u \in UserIds :
            userStates[u] # Nil =>
                /\ 0 <= heap[userStates[u]].Score
                /\ heap[userStates[u]].Score <= heap[userStates[u]].CurrentQuestion
                /\ heap[userStates[u]].CurrentQuestion <= Len(heap[userStates[u]].QuestionOrder)

\* What does hold with the handlers run one after the other: the same
\* whenever no handler is between its state.Score++ and its position update.
LegacyScoreWithinPositionAtRest ==
    (\E w \in WorkerIds : proc[w].pc \in {"lc_result", "lc_advance"})
    \/ LegacyScoreWithinPosition


=============================================================================
